---- MODULE Spec2Model ----
(***************************************************************************)
(* Model of streamlit_app.py ("Auto Prescribe"): a three-page session      *)
(* (Transcription / Summary / Key Insights) over two remote HTTP           *)
(* providers.  Texts are sequences of one-character strings so that the    *)
(* string post-processing is computed character by character.              *)
(***************************************************************************)
EXTENDS Integers, Sequences, FiniteSets, TLC

VARIABLES
    page,                 \* the page the sidebar radio selects
    pc,                   \* where the running script is blocked; "idle" between runs
    audio_file,           \* TRUE when the file uploader holds a file
    transcript, summary,  \* st.session_state['transcript'], ['summary']
    upload_res, transcript_res, \* status codes of the upload and job responses, 0 = none
    status, poll_res,     \* the poll loop's status and its last response
    res,                  \* the last response of the generative-text provider
    uploadsSent, submitsSent, pollsSent, \* requests sent by the current run
    msg,                  \* the message the run shows last
    summary_text, key_actions, display_key_actions \* what the pages compute

vars == <<page, pc, audio_file, transcript, summary, upload_res, transcript_res,
          status, poll_res, res, uploadsSent, submitsSent, pollsSent, msg,
          summary_text, key_actions, display_key_actions>>

(***************************************************************************)
(* Bounds of the model.                                                    *)
(***************************************************************************)
\* longest summary text, in segments of Segments, the formatting is tried on
MaxSegs == 3
\* the per-run request counters stop counting here (the loop itself goes on)
MaxPolls == 3

(***************************************************************************)
(* Literals of the program.                                                *)
(***************************************************************************)
HTTP_OK == 200

Marker == <<"K", "e", "y", " ", "A", "c", "t", "i", "o", "n", "s", ":">>

Label == <<"s", "u", "m", "m", "a", "r", "y", ":">>

Placeholder == <<"N", "o", " ", "k", "e", "y", " ", "a", "c", "t", "i", "o", "n", "s", " ", "f", "o", "u", "n", "d", ".">>

Bullet == <<"-", " ">>

Newline == <<"\n">>

Pages == {"Transcription", "Summary", "KeyInsights"}

TerminalStatuses == {"completed", "error"}

(***************************************************************************)
(* Python str operations, as the program uses them.                        *)
(***************************************************************************)
\* characters str.strip() removes
Whitespace == {" ", "\n", "\t", "\r"}

UpperCase == <<"A", "B", "C", "D", "E", "F", "G", "H", "I", "J", "K", "L", "M", "N", "O", "P", "Q", "R", "S", "T", "U", "V", "W", "X", "Y", "Z">>

LowerCase == <<"a", "b", "c", "d", "e", "f", "g", "h", "i", "j", "k", "l", "m", "n", "o", "p", "q", "r", "s", "t", "u", "v", "w", "x", "y", "z">>

LowerChar(c) ==
    IF \E i \in 1..Len(UpperCase) : UpperCase[i] = c
    THEN LowerCase[CHOOSE i \in 1..Len(UpperCase) : UpperCase[i] = c]
    ELSE c

\* s.lower()
Lower(s) == [i \in 1..Len(s) |-> LowerChar(s[i])]

RECURSIVE LStrip(_)
LStrip(s) == IF s # <<>> /\ Head(s) \in Whitespace THEN LStrip(Tail(s)) ELSE s

RECURSIVE RStrip(_)
RStrip(s) ==
    IF s # <<>> /\ s[Len(s)] \in Whitespace
    THEN RStrip(SubSeq(s, 1, Len(s) - 1))
    ELSE s

\* s.strip()
Strip(s) == RStrip(LStrip(s))

\* s.startswith(p)
StartsWith(s, p) == Len(s) >= Len(p) /\ SubSeq(s, 1, Len(p)) = p

\* s[n:]
Slice(s, n) == SubSeq(s, n + 1, Len(s))

\* s.find(sub) + 1: position of the first occurrence of sub in s, 0 if none
RECURSIVE FindFrom(_, _, _)
FindFrom(s, sub, i) ==
    IF i + Len(sub) - 1 > Len(s) THEN 0
    ELSE IF SubSeq(s, i, i + Len(sub) - 1) = sub THEN i
    ELSE FindFrom(s, sub, i + 1)

\* sub in s
Contains(s, sub) == FindFrom(s, sub, 1) # 0

\* s.split(sep, 1): at most one split, at the first occurrence of sep
SplitOnce(s, sep) ==
    LET i == FindFrom(s, sep, 1) IN
    IF i = 0 THEN <<s>>
    ELSE <<SubSeq(s, 1, i - 1), SubSeq(s, i + Len(sep), Len(s))>>

\* s.replace(a, b) for single characters a and b
Replace(s, a, b) == [i \in 1..Len(s) |-> IF s[i] = a THEN b ELSE s[i]]

\* s.split(c) for a single character c: every piece, the empty ones too
RECURSIVE SplitAll(_, _)
SplitAll(s, c) ==
    LET i == FindFrom(s, <<c>>, 1) IN
    IF i = 0 THEN <<s>>
    ELSE <<SubSeq(s, 1, i - 1)>> \o SplitAll(SubSeq(s, i + 1, Len(s)), c)

\* sep.join(parts)
RECURSIVE Join(_, _)
Join(sep, parts) ==
    IF parts = <<>> THEN <<>>
    ELSE IF Len(parts) = 1 THEN parts[1]
    ELSE parts[1] \o sep \o Join(sep, Tail(parts))

(***************************************************************************)
(* Display formatting of the Summary page and of the Key Insights page.    *)
(***************************************************************************)
\* Summary page: the displayed summary_text
SummaryView(s) ==
    LET before == IF Contains(s, Marker) THEN SplitOnce(s, Marker)[1] ELSE s IN
    IF StartsWith(Strip(Lower(before)), Label)
    THEN Strip(Slice(before, Len(Label)))
    ELSE before

KeyActionsOf_LastMarker(s) ==
    IF Contains(s, Marker)
    THEN LET RECURSIVE Last(_)
             Last(t) == IF Contains(t, Marker) THEN Last(SplitOnce(t, Marker)[2]) ELSE t
         IN Strip(Last(s))
    ELSE <<>>

\* Key Insights page: key_actions
KeyActionsOf(s) ==
    IF Contains(s, Marker)
    THEN LET parts == SplitOnce(s, Marker) IN Strip(parts[Len(parts)])
    ELSE <<>>

\* [pt.strip() for pt in ... if pt.strip()]
Points(k) ==
    LET raw == SplitAll(Replace(k, ";", "."), ".") IN
    SelectSeq([i \in 1..Len(raw) |-> Strip(raw[i])], LAMBDA pt : pt # <<>>)

BulletLines_NoSpace(points) ==
    Join(<<";">>, [i \in 1..Len(points) |-> <<"-">> \o points[i]])

\* '\n'.join([f"- {pt}" for pt in points])
BulletLines(points) ==
    Join(Newline, [i \in 1..Len(points) |-> Bullet \o points[i]])

FormatKeyActions_AnyPoint(k) ==
    IF k # <<>> /\ ~(Contains(k, Bullet) \/ Contains(k, Newline))
    THEN IF Len(Points(k)) > 0 THEN BulletLines(Points(k)) ELSE k
    ELSE k

\* Key Insights page: display_key_actions
FormatKeyActions(k) ==
    IF k # <<>> /\ ~(Contains(k, Bullet) \/ Contains(k, Newline))
    THEN IF Len(Points(k)) > 1 THEN BulletLines(Points(k)) ELSE k
    ELSE k

\* display_key_actions or "No key actions found."
OrPlaceholder(d) == IF d # <<>> THEN d ELSE Placeholder

(***************************************************************************)
(* Inputs: what the user and the two providers can send.                   *)
(***************************************************************************)
StatusCodes == {200, 401, 500}

PollStatuses == {"queued", "processing", "completed", "error"}

ExampleSummary == <<"S", "u", "m", "m", "a", "r", "y", ":", " ", "P", "a", "t", "i", "e", "n", "t", " ", "h", "a", "s", " ", "a", " ", "c", "o", "l", "d", ".", "K", "e", "y", " ", "A", "c", "t", "i", "o", "n", "s", ":", "R", "e", "s", "t", ";", " ", "d", "r", "i", "n", "k", " ", "f", "l", "u", "i", "d", "s", ".">>

ExampleActions == <<"C", "h", "e", "c", "k", " ", "v", "i", "t", "a", "l", "s", ".", " ", "S", "c", "h", "e", "d", "u", "l", "e", " ", "f", "o", "l", "l", "o", "w", "-", "u", "p", ".", " ", "O", "r", "d", "e", "r", " ", "b", "l", "o", "o", "d", "w", "o", "r", "k", ".">>

\* texts a completed transcription job can carry
TranscriptTexts == {<<>>, <<"t">>, <<"u">>}

\* texts the generative-text provider can answer in the workflow model
GeminiTexts == {<<>>, <<"s">>, ExampleSummary}

\* pieces the summary texts of the formatting model are built from
Segments ==
    { Marker, Label, <<"S", "u", "m", "m", "a", "r", "y", ":">>,
      <<" ">>, Newline, Bullet, <<".">>, <<"a", ".">>, <<"b", ";">>, <<"c">> }

RECURSIVE TextsOf(_)
TextsOf(n) ==
    IF n = 0 THEN {<<>>}
    ELSE LET shorter == TextsOf(n - 1) IN
         shorter \cup {t \o g : t \in shorter, g \in Segments}

SummaryInputs == TextsOf(MaxSegs) \cup {ExampleSummary, Marker \o ExampleActions}

NoPoll == [status |-> "none", text |-> <<>>]

NoRes == [status_code |-> 0, has_text |-> FALSE, text |-> <<>>]

(***************************************************************************)
(* Decisions of the script.                                                *)
(***************************************************************************)
Inc(n) == IF n < MaxPolls THEN n + 1 ELSE n

StageSucceeded_Always(code) == TRUE

\* status_code != 200 aborts the run
StageSucceeded(code) == code = HTTP_OK

PollContinues_OnlyQueued(st) == st = "queued"

\* while status not in ["completed", "error"]
PollContinues(st) == st \notin TerminalStatuses

TranscriptAfterPoll_AnyTerminal(st, text, old) ==
    IF st \in TerminalStatuses THEN text ELSE old

\* if status == "completed": st.session_state['transcript'] = poll_res.json()["text"]
TranscriptAfterPoll(st, text, old) == IF st = "completed" THEN text ELSE old

SummaryAfterResponse_NoParseCheck(code, has_text, text, old) ==
    IF code = HTTP_OK THEN text ELSE old

\* the summary is assigned after the nested text field was read
SummaryAfterResponse(code, has_text, text, old) ==
    IF code = HTTP_OK /\ has_text THEN text ELSE old

GenerateAvailable_Ungated(tr, su) == TRUE

\* if not st.session_state['transcript']: warning, else: the Generate button
GenerateAvailable(tr, su) == tr # <<>>

\* the message a page shows when it is rendered with no button pressed
PageMsg(p, tr, su) ==
    IF p = "Summary" /\ ~GenerateAvailable(tr, su) THEN "warn_transcript"
    ELSE IF p = "KeyInsights" /\ su = <<>> THEN "warn_summary"
    ELSE "none"

\* the page's text areas, computed from the session summary su
Render(p, su) ==
    /\ summary_text' = IF p = "Summary" /\ su # <<>> THEN SummaryView(su) ELSE <<>>
    /\ key_actions' = IF p = "KeyInsights" /\ su # <<>> THEN KeyActionsOf(su) ELSE <<>>
    /\ display_key_actions' =
           IF p = "KeyInsights" /\ su # <<>>
           THEN FormatKeyActions(KeyActionsOf(su))
           ELSE <<>>

\* what the Key Actions text area shows
KeyActionsShown == OrPlaceholder(display_key_actions)

NoLocals ==
    /\ upload_res' = 0 /\ transcript_res' = 0
    /\ status' = "none" /\ poll_res' = NoPoll /\ res' = NoRes
    /\ uploadsSent' = 0 /\ submitsSent' = 0 /\ pollsSent' = 0

(***************************************************************************)
(* The session.                                                            *)
(***************************************************************************)
Init ==
    /\ page = "Transcription" /\ pc = "idle" /\ audio_file = FALSE
    /\ transcript = <<>> /\ summary = <<>>
    /\ upload_res = 0 /\ transcript_res = 0
    /\ status = "none" /\ poll_res = NoPoll /\ res = NoRes
    /\ uploadsSent = 0 /\ submitsSent = 0 /\ pollsSent = 0
    /\ msg = "none"
    /\ summary_text = <<>> /\ key_actions = <<>> /\ display_key_actions = <<>>

\* the user picks a page: the script reruns and renders it
SelectPage(p) ==
    /\ pc = "idle"
    /\ page' = p
    /\ msg' = PageMsg(p, transcript, summary)
    /\ Render(p, summary)
    /\ NoLocals
    /\ UNCHANGED <<pc, audio_file, transcript, summary>>

\* the user puts a file into the uploader of the Transcription page
ChooseFile ==
    /\ pc = "idle" /\ page = "Transcription"
    /\ audio_file' = TRUE
    /\ msg' = "none"
    /\ Render(page, summary)
    /\ NoLocals
    /\ UNCHANGED <<page, pc, transcript, summary>>

\* Start Transcription pressed: the run begins and posts the upload
StartTranscription ==
    /\ pc = "idle" /\ page = "Transcription" /\ audio_file
    /\ pc' = "upload_wait"
    /\ upload_res' = 0 /\ transcript_res' = 0
    /\ status' = "none" /\ poll_res' = NoPoll /\ res' = NoRes
    /\ uploadsSent' = 1 /\ submitsSent' = 0 /\ pollsSent' = 0
    /\ msg' = "uploading"
    /\ Render(page, summary)
    /\ UNCHANGED <<page, audio_file, transcript, summary>>

\* the upload response arrives; on 200 the job submission is posted
UploadResponse(code) ==
    /\ pc = "upload_wait"
    /\ upload_res' = code
    /\ IF StageSucceeded(code)
       THEN /\ pc' = "submit_wait"
            /\ submitsSent' = Inc(submitsSent)
            /\ msg' = msg
       ELSE /\ pc' = "idle"
            /\ submitsSent' = submitsSent
            /\ msg' = "upload_failed"
    /\ UNCHANGED <<page, audio_file, transcript, summary, transcript_res, status,
                   poll_res, res, uploadsSent, pollsSent,
                   summary_text, key_actions, display_key_actions>>

\* the job response arrives; on 200 status is "queued" and the first poll is sent
SubmitResponse(code) ==
    /\ pc = "submit_wait"
    /\ transcript_res' = code
    /\ IF StageSucceeded(code)
       THEN /\ status' = "queued"
            /\ IF PollContinues("queued")
               THEN pc' = "poll_wait" /\ pollsSent' = Inc(pollsSent)
               ELSE pc' = "idle" /\ pollsSent' = pollsSent
            /\ msg' = msg
       ELSE /\ pc' = "idle"
            /\ status' = status
            /\ pollsSent' = pollsSent
            /\ msg' = "submit_failed"
    /\ UNCHANGED <<page, audio_file, transcript, summary, upload_res,
                   poll_res, res, uploadsSent, submitsSent,
                   summary_text, key_actions, display_key_actions>>

\* a poll response arrives: one pass of the loop body and the loop test
PollResponse(st, text) ==
    /\ pc = "poll_wait"
    /\ poll_res' = [status |-> st, text |-> text]
    /\ status' = st
    /\ transcript' = TranscriptAfterPoll(st, text, transcript)
    /\ msg' = IF st = "completed" THEN "completed"
              ELSE IF st = "error" THEN "failed"
              ELSE "waiting"
    /\ IF PollContinues(st)
       THEN pc' = "poll_wait" /\ pollsSent' = Inc(pollsSent)
       ELSE pc' = "idle" /\ pollsSent' = pollsSent
    /\ UNCHANGED <<page, audio_file, summary, upload_res, transcript_res, res,
                   uploadsSent, submitsSent,
                   summary_text, key_actions, display_key_actions>>

\* Generate Summary pressed on the Summary page: the request is posted
GenerateSummary ==
    /\ pc = "idle" /\ page = "Summary"
    /\ GenerateAvailable(transcript, summary)
    /\ pc' = "gemini_wait"
    /\ msg' = "generating"
    /\ Render(page, <<>>)
    /\ NoLocals
    /\ UNCHANGED <<page, audio_file, transcript, summary>>

\* the provider's response arrives; the page then shows the session summary
GeminiResponse(code, has_text, text) ==
    /\ pc = "gemini_wait"
    /\ res' = [status_code |-> code, has_text |-> has_text, text |-> text]
    /\ summary' = SummaryAfterResponse(code, has_text, text, summary)
    /\ msg' = IF code # HTTP_OK THEN "gemini_error"
              ELSE IF has_text THEN "summary_ok"
              ELSE "parse_failed"
    /\ Render(page, summary')
    /\ pc' = "idle"
    /\ UNCHANGED <<page, audio_file, transcript, upload_res, transcript_res,
                   status, poll_res, uploadsSent, submitsSent, pollsSent>>

\* a request raises, or a transcription response lacks the field the script
\* reads: nothing catches it and the run ends where it is
RunException ==
    /\ pc \in {"upload_wait", "submit_wait", "poll_wait", "gemini_wait"}
    /\ pc' = "idle"
    /\ msg' = "exception"
    /\ UNCHANGED <<page, audio_file, transcript, summary, upload_res,
                   transcript_res, status, poll_res, res,
                   uploadsSent, submitsSent, pollsSent,
                   summary_text, key_actions, display_key_actions>>

Next ==
    \/ \E p \in Pages : SelectPage(p)
    \/ ChooseFile
    \/ StartTranscription
    \/ \E code \in StatusCodes : UploadResponse(code)
    \/ \E code \in StatusCodes : SubmitResponse(code)
    \/ \E st \in PollStatuses, text \in TranscriptTexts : PollResponse(st, text)
    \/ GenerateSummary
    \/ \E code \in StatusCodes, has_text \in BOOLEAN, text \in GeminiTexts :
           GeminiResponse(code, has_text, text)
    \/ RunException

Spec == Init /\ [][Next]_vars

(***************************************************************************)
(* The formatting model: the session holds any summary text and the user   *)
(* moves between the pages, which compute their views of it.               *)
(***************************************************************************)
FmtInit ==
    /\ page = "Transcription" /\ pc = "idle" /\ audio_file = FALSE
    /\ transcript = <<"t">> /\ summary \in SummaryInputs
    /\ upload_res = 0 /\ transcript_res = 0
    /\ status = "none" /\ poll_res = NoPoll /\ res = NoRes
    /\ uploadsSent = 0 /\ submitsSent = 0 /\ pollsSent = 0
    /\ msg = "none"
    /\ summary_text = <<>> /\ key_actions = <<>> /\ display_key_actions = <<>>

FmtNext == \E p \in Pages : SelectPage(p)

FmtSpec == FmtInit /\ [][FmtNext]_vars

(***************************************************************************)
(* Texts of the worked examples.                                           *)
(***************************************************************************)
ExampleSummaryView == <<"P", "a", "t", "i", "e", "n", "t", " ", "h", "a", "s", " ", "a", " ", "c", "o", "l", "d", ".">>

ExampleBullets == <<"-", " ", "R", "e", "s", "t", "\n", "-", " ", "d", "r", "i", "n", "k", " ", "f", "l", "u", "i", "d", "s">>

ExampleActionsBullets == <<"-", " ", "C", "h", "e", "c", "k", " ", "v", "i", "t", "a", "l", "s", "\n", "-", " ", "S", "c", "h", "e", "d", "u", "l", "e", " ", "f", "o", "l", "l", "o", "w", "-", "u", "p", "\n", "-", " ", "O", "r", "d", "e", "r", " ", "b", "l", "o", "o", "d", "w", "o", "r", "k">>

(***************************************************************************)
(* Properties of the workflow (Spec).                                      *)
(***************************************************************************)
\* C1: the session transcript changes only in the step that receives a poll
\* response with status "completed", it is then that response's text and the
\* run ends there; a run that ends on a non-200 upload, a non-200 job
\* submission or a polled "error" ends with the transcript it had.
C1_TranscriptOnlyOnCompleted ==
    [][ /\ (transcript' # transcript =>
              /\ pc = "poll_wait" /\ pc' = "idle"
              /\ poll_res'.status = "completed"
              /\ transcript' = poll_res'.text)
        /\ (pc = "poll_wait" /\ status' = "completed" => transcript' = poll_res'.text)
        /\ (/\ pc # "idle" /\ pc' = "idle"
            /\ \/ upload_res' \notin {0, 200}
               \/ transcript_res' \notin {0, 200}
               \/ poll_res'.status = "error"
            => transcript' = transcript)
      ]_vars

C1_Witness ==
    /\ pc = "idle" /\ poll_res.status = "error" /\ msg = "failed"
    /\ transcript # <<>>

\* C2: when the provider's response arrives, the summary becomes the response
\* text if the status is 200 and the nested text field is there; otherwise an
\* error is shown and the summary keeps its value.  Nothing else writes it.
C2_SummaryOnlyOnSuccess ==
    [][ /\ (pc = "gemini_wait" /\ res'.status_code # 0 =>
              IF res'.status_code = 200 /\ res'.has_text
              THEN summary' = res'.text /\ msg' = "summary_ok"
              ELSE summary' = summary /\ msg' \in {"gemini_error", "parse_failed"})
        /\ (summary' # summary =>
              pc = "gemini_wait" /\ res'.status_code = 200 /\ res'.has_text)
      ]_vars

C2_Witness ==
    /\ pc = "idle" /\ res.status_code = 200 /\ ~res.has_text
    /\ msg = "parse_failed" /\ summary # <<>>

\* C3: with an empty transcript the Summary page shows the precondition
\* warning and Generate Summary cannot be pressed; a request to the
\* generative-text provider is in flight only while the transcript is
\* non-empty.
C3_SummaryGated ==
    /\ (page = "Summary" /\ pc = "idle" /\ transcript = <<>> =>
           msg = "warn_transcript" /\ ~ENABLED GenerateSummary)
    /\ (pc = "gemini_wait" => transcript # <<>>)

C3_Witness ==
    /\ page = "Summary" /\ transcript = <<>> /\ summary # <<>>
    /\ msg = "warn_transcript"

\* C8: per run the upload and the job submission are sent at most once, a
\* submission only after a 200 upload, a poll only after a 200 submission;
\* a non-200 response ends the run with nothing further sent.
C8_StrictOrderNoRetry ==
    /\ uploadsSent <= 1 /\ submitsSent <= 1
    /\ (submitsSent > 0 => uploadsSent = 1 /\ upload_res = 200)
    /\ (pollsSent > 0 => submitsSent = 1 /\ transcript_res = 200)
    /\ (upload_res \notin {0, 200} =>
           submitsSent = 0 /\ pollsSent = 0 /\ pc = "idle")
    /\ (transcript_res \notin {0, 200} => pollsSent = 0 /\ pc = "idle")

C8_Witness ==
    /\ pc = "idle" /\ upload_res = 200 /\ transcript_res = 500
    /\ uploadsSent = 1 /\ submitsSent = 1 /\ pollsSent = 0

\* C9: while the run waits for a poll response another poll response can
\* always be taken, whatever the number of polls so far; a response with a
\* status other than "completed" and "error" sends the next poll and keeps
\* the run in the loop, and a response with one of the two ends the run.
C9_PollUntilTerminal ==
    /\ [](pc = "poll_wait" => ENABLED PollResponse("processing", <<>>))
    /\ [][ pc = "poll_wait" /\ msg' # "exception" =>
             /\ (poll_res'.status \notin {"completed", "error"} =>
                    pc' = "poll_wait" /\ pollsSent' = Inc(pollsSent))
             /\ (poll_res'.status \in {"completed", "error"} =>
                    pc' = "idle" /\ pollsSent' = pollsSent)
          ]_vars

C9_Witness ==
    pc = "poll_wait" /\ pollsSent = MaxPolls /\ status = "processing"

\* C10 as stated: every state with a non-empty summary has a non-empty
\* transcript.
C10_SummaryImpliesTranscript == summary # <<>> => transcript # <<>>

\* C10 as amended: a step leads from a state where a non-empty summary has
\* a non-empty transcript to one where it has not only if it is the poll
\* response of a job that completes with empty text.
C10_BrokenOnlyByEmptyCompletion ==
    [][ /\ (summary # <<>> => transcript # <<>>)
        /\ ~(pc = "poll_wait" /\ status' = "completed" /\ poll_res'.text = <<>>)
        => (summary' # <<>> => transcript' # <<>>)
      ]_vars

C10_Witness ==
    /\ pc = "idle" /\ poll_res = [status |-> "completed", text |-> <<>>]
    /\ summary # <<>> /\ transcript = <<>>

(***************************************************************************)
(* Properties of the display formatting (FmtSpec).                         *)
(***************************************************************************)
\* C4: on the Key Insights page with a non-empty summary, key_actions is
\* what follows the first occurrence of the marker less the whitespace at
\* its two ends; with no marker it is empty and the placeholder is shown.
C4_KeyActionsAfterFirstMarker ==
    page = "KeyInsights" /\ summary # <<>> =>
        LET n == Len(Marker)
            occ == {i \in 1..Len(summary) :
                       i + n - 1 <= Len(summary) /\ SubSeq(summary, i, i + n - 1) = Marker}
        IN  IF occ = {}
            THEN key_actions = <<>> /\ KeyActionsShown = Placeholder
            ELSE LET first == CHOOSE i \in occ : \A j \in occ : i <= j
                     rest == SubSeq(summary, first + n, Len(summary))
                     ink == {i \in 1..Len(rest) : rest[i] \notin Whitespace}
                 IN  IF ink = {}
                     THEN key_actions = <<>>
                     ELSE LET lo == CHOOSE i \in ink : \A j \in ink : i <= j
                              hi == CHOOSE i \in ink : \A j \in ink : j <= i
                          IN  key_actions = SubSeq(rest, lo, hi)

C4_Witness ==
    /\ page = "KeyInsights"
    /\ summary = Marker \o <<" ">> \o Marker
    /\ key_actions = Marker

\* C5: on the Summary page with a non-empty summary, the displayed text is
\* the text before the first marker (the whole text with no marker), and
\* when that text, lower-cased and trimmed, begins with "summary:", it is
\* that text with the label removed (whitespace at the ends not counted).
C5_SummaryViewLabelRemoved ==
    page = "Summary" /\ summary # <<>> =>
        LET i == FindFrom(summary, Marker, 1)
            before == IF i = 0 THEN summary ELSE SubSeq(summary, 1, i - 1)
            body == Strip(before)
        IN  /\ IF StartsWith(Lower(body), Label)
               THEN Strip(summary_text) = Strip(Slice(body, Len(Label)))
               ELSE summary_text = before
            /\ (summary = ExampleSummary => summary_text = ExampleSummaryView)

\* C6: on the Key Insights page, key_actions holding a newline or "- " is
\* shown as it is; otherwise its fragments between '.' and ';', trimmed and
\* the empty ones dropped, are shown one per line after "- " in their order
\* when there are two or more, and the text is shown as it is when there is
\* at most one.  The two worked examples give the stated lines.
C6_BulletFormatting ==
    page = "KeyInsights" /\ summary # <<>> =>
        LET k == key_actions
            verbatim ==
                \E i \in 1..Len(k) :
                    \/ k[i] = "\n"
                    \/ k[i] = "-" /\ i < Len(k) /\ k[i + 1] = " "
            cuts == {0, Len(k) + 1} \cup {i \in 1..Len(k) : k[i] \in {".", ";"}}
            Trimmed(a, b) ==
                LET ink == {i \in (a + 1)..(b - 1) : k[i] \notin Whitespace} IN
                IF ink = {} THEN <<>>
                ELSE SubSeq(k, CHOOSE i \in ink : \A j \in ink : i <= j,
                               CHOOSE i \in ink : \A j \in ink : j <= i)
            NextCut(a) == CHOOSE b \in cuts : b > a /\ \A c \in cuts : c > a => b <= c
            RECURSIVE Lines(_, _)
            Lines(a, first) ==
                IF a = Len(k) + 1 THEN <<>>
                ELSE LET b == NextCut(a)
                         frag == Trimmed(a, b)
                     IN  IF frag = <<>> THEN Lines(b, first)
                         ELSE (IF first THEN <<>> ELSE <<"\n">>)
                              \o <<"-", " ">> \o frag \o Lines(b, FALSE)
            count == Cardinality({a \in cuts : a <= Len(k) /\ Trimmed(a, NextCut(a)) # <<>>})
        IN  /\ display_key_actions =
                   IF verbatim \/ count <= 1 THEN k ELSE Lines(0, TRUE)
            /\ (k = ExampleActions => display_key_actions = ExampleActionsBullets)
            /\ (summary = ExampleSummary => display_key_actions = ExampleBullets)

C6_Witness ==
    /\ page = "KeyInsights"
    /\ key_actions = ExampleActions
    /\ display_key_actions = ExampleActionsBullets

\* C7: formatting the formatted key actions again changes nothing, for the
\* text computed from key_actions and for the text the page shows.
C7_FormatIdempotent ==
    page = "KeyInsights" /\ summary # <<>> =>
        /\ display_key_actions = FormatKeyActions(key_actions)
        /\ FormatKeyActions(display_key_actions) = display_key_actions
        /\ FormatKeyActions(KeyActionsShown) = KeyActionsShown

C7_Witness ==
    /\ page = "KeyInsights"
    /\ display_key_actions # key_actions
    /\ Contains(display_key_actions, Bullet)
    /\ FormatKeyActions(display_key_actions) = display_key_actions

====
